---- MODULE Spec2Model ----
(***************************************************************************)
(* FASTQ statistics: the aggregation passes of run_fastq_argparse.py,      *)
(* run_fastq_click.py and fastqc_gui.py over a stream of records.          *)
(*                                                                         *)
(* A record is [sequence, quality]: a sequence of one-character strings    *)
(* and a sequence of Phred scores.  Python's true division is modelled by  *)
(* exact fractions [num, den] in lowest terms.  An optional value (Python  *)
(* None, or a local that was never assigned) is the empty sequence, a      *)
(* present one the one-element sequence.                                   *)
(***************************************************************************)
EXTENDS Integers, Sequences, FiniteSets, TLC

\* ---------------------------------------------------------------- bounds
MaxReads == 2
MaxLen == 2
MaxSymbols == 4
MaxRuns == 2
GradeDen == 2

\* ---------------------------------------------------- program constants
Q20 == 20
Q30 == 30
Excellent30 == 80
Good30 == 60
Acceptable20 == 80
TopK == 10
Percent == 100
HistBins == 50

\* ------------------------------------------------------ input alphabets
Bases == {"A", "C", "G", "N", "g"}
Quals == {10, 20, 30}

SeqsUpTo(S, n) == UNION {[1..k -> S] : k \in 0..n}


\* --------------------------------------------------------------- helpers
None == <<>>
Some(v) == <<v>>

Min2(a, b) == IF a <= b THEN a ELSE b
Max2(a, b) == IF a >= b THEN a ELSE b

\* the symbols of the reads where the view is run again and again
ViewBases == {"A", "N"}

\* A field the command never reads is drawn from two shapes only: one of the
\* length of the other field and one of another length (a malformed record).
Shapes(n, x) == {[i \in 1..n |-> x], [i \in 1..(IF n = 0 THEN 1 ELSE n - 1) |-> x]}

\* The records the reader may yield next.  The basic stats and plots passes
\* read only record.sequence, the quality passes only record.quality, the
\* interactive view reads both.  symbols is the number of scores (quality
\* passes) or of bases and scores (interactive view) read so far, which
\* MaxSymbols bounds.  Where the view is run again and again ("load_file") the
\* reads are well-formed with one score for all bases, and symbols counts the
\* bases of all the runs.
Records(c, symbols) ==
    IF c = "load_file"
    THEN {[sequence |-> s, quality |-> [i \in 1..Len(s) |-> Q30]] :
            s \in SeqsUpTo(ViewBases, Min2(MaxLen, MaxSymbols - symbols))}
    ELSE IF c = "run_analysis"
    THEN UNION {[sequence : [1..l[1] -> Bases], quality : [1..l[2] -> Quals]] :
                  l \in {m \in (0..MaxLen) \X (0..MaxLen) :
                           symbols + m[1] + m[2] <= MaxSymbols}}
    ELSE IF c \in {"quality", "quality_command"}
    THEN UNION {[sequence : Shapes(Len(q), "A"), quality : {q}] :
                  q \in SeqsUpTo(Quals, Min2(MaxLen, MaxSymbols - symbols))}
    ELSE UNION {[sequence : {s}, quality : Shapes(Len(s), Q30)] :
                  s \in SeqsUpTo(Bases, MaxLen)}

RECURSIVE Gcd(_, _)
Gcd(a, b) == IF b = 0 THEN a ELSE Gcd(b, a % b)

\* a / b for b # 0, in lowest terms
Frac(a, b) == LET g == Gcd(a, b) IN
              IF a = 0 THEN [num |-> 0, den |-> 1]
              ELSE [num |-> a \div g, den |-> b \div g]
FAdd(x, y) == Frac(x.num * y.den + y.num * x.den, x.den * y.den)
FDivInt(x, n) == Frac(x.num, x.den * n)
FMulInt(x, n) == Frac(x.num * n, x.den)
FGeInt(x, n) == x.num >= n * x.den
FGe(x, y) == x.num * y.den >= y.num * x.den
FLt(x, y) == x.num * y.den < y.num * x.den
Zero == Frac(0, 1)

RECURSIVE sum(_)
sum(s) == IF s = <<>> THEN 0 ELSE Head(s) + sum(Tail(s))

RECURSIVE fsum(_)
fsum(s) == IF s = <<>> THEN Zero ELSE FAdd(Head(s), fsum(Tail(s)))

RECURSIVE min(_)
min(s) == IF Len(s) = 1 THEN s[1] ELSE Min2(s[1], min(Tail(s)))

RECURSIVE max(_)
max(s) == IF Len(s) = 1 THEN s[1] ELSE Max2(s[1], max(Tail(s)))

\* str.upper() on one character
upper(c) == IF c = "g" THEN "G" ELSE c

\* str.count(ch) after upper()
RECURSIVE count(_, _)
count(s, ch) == IF s = <<>> THEN 0
                ELSE (IF upper(Head(s)) = ch THEN 1 ELSE 0) + count(Tail(s), ch)

\* sum(1 for q in qual_scores if q >= t)
RECURSIVE count_ge(_, _)
count_ge(s, t) == IF s = <<>> THEN 0
                  ELSE (IF Head(s) >= t THEN 1 ELSE 0) + count_ge(Tail(s), t)

\* ------------------------------------------------------------ the state
VARIABLES
    cmd,        \* the entry point that runs
    detailed,   \* the --detailed flag of the click stats command
    pc,         \* "start", "reading", "summary", "done"
    acc,        \* the accumulators: the locals of the pass
    out,        \* what the command reports, and its exit status
    gui,        \* the widgets of FastQCApp
    ghost       \* history of the records read (not program state)

vars == <<cmd, detailed, pc, acc, out, gui, ghost>>

\* "run_analysis" is one analysis in the fresh window, "load_file" the button
\* of the window pressed again and again
Commands == {"stats_command", "plots_command", "quality_command",
             "stats", "plots", "quality", "run_analysis", "load_file"}

ViewCommands == {"run_analysis", "load_file"}

EmptyAcc == [total_sequences |-> 0, total_length |-> 0, sequence_lengths |-> <<>>,
             gc_count |-> 0, total_bases |-> 0, quality_stats |-> <<>>,
             quality_per_position |-> <<>>, base_content_per_position |-> <<>>]

EmptyOut == [exit_status |-> None, message |-> "", mean_length |-> None,
             min_length |-> None, max_length |-> None, gc_content |-> None,
             sorted_lengths |-> None, total_bases |-> None,
             mean_quality_all |-> None, min_quality_all |-> None,
             max_quality_all |-> None, q20_percentage |-> None,
             q30_percentage |-> None, quality_grade |-> None]

\* sys.exit(1) of the argparse handlers, ClickException of the click ones
Failed == [EmptyOut EXCEPT !.exit_status = Some(1), !.message = "error"]
NoData == [EmptyOut EXCEPT !.exit_status = Some(0), !.message = "no_data"]

\* --------------------------------------------------- basic stats passes
\* mutant: total_length counts the records, not their symbols
stats_command_ingest_records(a, record) ==
    LET seq_len == Len(record.sequence) IN
    [a EXCEPT !.total_sequences = @ + 1,
              !.total_length = @ + 1,
              !.sequence_lengths = Append(@, seq_len),
              !.gc_count = @ + count(record.sequence, "G") + count(record.sequence, "C"),
              !.total_bases = @ + seq_len]

\* mutant: G and C are counted as written, without upper()
stats_command_ingest_exact_case(a, record) ==
    LET seq_len == Len(record.sequence) IN
    [a EXCEPT !.total_sequences = @ + 1,
              !.total_length = @ + seq_len,
              !.sequence_lengths = Append(@, seq_len),
              !.gc_count = @ + Cardinality({i \in 1..seq_len :
                                              record.sequence[i] \in {"G", "C"}}),
              !.total_bases = @ + seq_len]

stats_command_ingest(a, record) ==
    LET seq_len == Len(record.sequence) IN
    [a EXCEPT !.total_sequences = @ + 1,
              !.total_length = @ + seq_len,
              !.sequence_lengths = Append(@, seq_len),
              !.gc_count = @ + count(record.sequence, "G") + count(record.sequence, "C"),
              !.total_bases = @ + seq_len]

\* mutant: total_bases counts the records, not their bases
calculate_basic_stats_ingest_bases(a, record) ==
    LET seq_len == Len(record.sequence) IN
    [a EXCEPT !.total_sequences = @ + 1,
              !.total_length = @ + seq_len,
              !.sequence_lengths = Append(@, seq_len),
              !.gc_count = @ + count(record.sequence, "G") + count(record.sequence, "C"),
              !.total_bases = @ + 1]

\* mutant: the ambiguous base N is counted with G and C
calculate_basic_stats_ingest_ambiguous(a, record) ==
    LET seq_len == Len(record.sequence) IN
    [a EXCEPT !.total_sequences = @ + 1,
              !.total_length = @ + seq_len,
              !.sequence_lengths = Append(@, seq_len),
              !.gc_count = @ + count(record.sequence, "G") + count(record.sequence, "C")
                             + count(record.sequence, "N"),
              !.total_bases = @ + seq_len]

calculate_basic_stats_ingest(a, record) ==
    LET seq_len == Len(record.sequence) IN
    [a EXCEPT !.total_sequences = @ + 1,
              !.total_length = @ + seq_len,
              !.sequence_lengths = Append(@, seq_len),
              !.gc_count = @ + count(record.sequence, "G") + count(record.sequence, "C"),
              !.total_bases = @ + seq_len]

\* length_counts[length] = length_counts.get(length, 0) + 1, for each length:
\* a dict keeps its keys in the order of their first insertion
RECURSIVE length_counts(_, _)
length_counts(counts, lengths) ==
    IF lengths = <<>> THEN counts
    ELSE LET length == Head(lengths)
             hit == {i \in 1..Len(counts) : counts[i].length = length}
             next == IF hit = {}
                     THEN Append(counts, [length |-> length, count |-> 1])
                     ELSE [i \in 1..Len(counts) |->
                             IF i \in hit THEN [counts[i] EXCEPT !.count = @ + 1]
                             ELSE counts[i]]
         IN length_counts(next, Tail(lengths))

\* sorted(items, key=lambda x: x[1], reverse=True): a stable sort, and reverse
\* keeps the original order of the items with equal keys
RECURSIVE sorted_by_count(_)
sorted_by_count(items) ==
    IF items = <<>> THEN <<>>
    ELSE LET s == sorted_by_count(SubSeq(items, 1, Len(items) - 1))
             x == items[Len(items)]
             k == Cardinality({i \in 1..Len(s) : s[i].count >= x.count})
         IN SubSeq(s, 1, k) \o <<x>> \o SubSeq(s, k + 1, Len(s))

\* the top-10 lengths with their count and percentage
length_distribution(sequence_lengths, total_sequences) ==
    LET s == sorted_by_count(length_counts(<<>>, sequence_lengths))
        top == SubSeq(s, 1, Min2(TopK, Len(s)))
    IN [i \in 1..Len(top) |->
          [length |-> top[i].length, count |-> top[i].count,
           percentage |-> FMulInt(Frac(top[i].count, total_sequences), Percent)]]

stats_command_report(a) ==
    [EmptyOut EXCEPT
       !.exit_status = Some(0), !.message = "report",
       !.mean_length = Some(Frac(a.total_length, a.total_sequences)),
       !.min_length = Some(min(a.sequence_lengths)),
       !.max_length = Some(max(a.sequence_lengths)),
       !.gc_content = Some(IF a.total_bases > 0
                           THEN FMulInt(Frac(a.gc_count, a.total_bases), Percent)
                           ELSE Zero),
       !.sorted_lengths =
           Some(length_distribution(a.sequence_lengths, a.total_sequences))]

\* mutant: the early return on an empty stream is missing, so that
\* total_length / total_sequences raises ZeroDivisionError
stats_command_summary_unguarded(a) ==
    IF a.total_sequences = 0 THEN Failed ELSE stats_command_report(a)

stats_command_summary(a) ==
    IF a.total_sequences = 0 THEN NoData ELSE stats_command_report(a)

\* the click stats command after calculate_basic_stats has returned stats_data:
\* what the command reports
stats_report(stats_data, flag) ==
       IF stats_data.total_sequences = 0 THEN NoData
       ELSE [EmptyOut EXCEPT
               !.exit_status = Some(0), !.message = "report",
               !.mean_length =
                   Some(Frac(stats_data.total_length, stats_data.total_sequences)),
               !.min_length = Some(min(stats_data.sequence_lengths)),
               !.max_length = Some(max(stats_data.sequence_lengths)),
               !.gc_content =
                   Some(IF stats_data.total_bases > 0
                        THEN FMulInt(Frac(stats_data.gc_count, stats_data.total_bases),
                                     Percent)
                        ELSE Zero),
               !.sorted_lengths =
                   IF flag
                   THEN Some(length_distribution(stats_data.sequence_lengths,
                                                 stats_data.total_sequences))
                   ELSE None]

\* list.sort()
RECURSIVE sort(_)
sort(s) ==
    IF s = <<>> THEN <<>>
    ELSE LET t == sort(SubSeq(s, 1, Len(s) - 1))
             x == s[Len(s)]
             k == Cardinality({i \in 1..Len(t) : t[i] <= x})
         IN SubSeq(t, 1, k) \o <<x>> \o SubSeq(t, k + 1, Len(t))

\* mutant: the command sorts stats_data['sequence_lengths'] in place
stats_sorting_in_place(stats_data, flag) ==
    [stats_data |-> [stats_data EXCEPT !.sequence_lengths = sort(@)],
     out |-> stats_report(stats_data, flag)]

\* the dict stats_data as the command leaves it, and what the command reports
stats(stats_data, flag) ==
    [stats_data |-> stats_data, out |-> stats_report(stats_data, flag)]

\* ------------------------------------------------------ quality passes
\* The dict seq_quality of one record.  sum(qual_scores) / len(qual_scores) is
\* evaluated first and raises ZeroDivisionError on an empty list: raised is
\* then TRUE and no dict is built.
quality_command_seq_quality(qual_scores) ==
    IF Len(qual_scores) = 0 THEN [raised |-> TRUE, value |-> None]
    ELSE [raised |-> FALSE,
          value |-> Some([mean_quality |-> Frac(sum(qual_scores), Len(qual_scores)),
                          min_quality |-> min(qual_scores),
                          max_quality |-> max(qual_scores),
                          q20_count |-> count_ge(qual_scores, Q20),
                          q30_count |-> count_ge(qual_scores, Q30),
                          length |-> Len(qual_scores)])]

\* mutant: the two thresholds are swapped
quality_seq_quality_swapped(qual_scores) ==
    IF Len(qual_scores) = 0 THEN [raised |-> TRUE, value |-> None]
    ELSE [raised |-> FALSE,
          value |-> Some([mean_quality |-> Frac(sum(qual_scores), Len(qual_scores)),
                          min_quality |-> min(qual_scores),
                          max_quality |-> max(qual_scores),
                          q20_count |-> count_ge(qual_scores, Q30),
                          q30_count |-> count_ge(qual_scores, Q20),
                          length |-> Len(qual_scores)])]

quality_seq_quality(qual_scores) ==
    IF Len(qual_scores) = 0 THEN [raised |-> TRUE, value |-> None]
    ELSE [raised |-> FALSE,
          value |-> Some([mean_quality |-> Frac(sum(qual_scores), Len(qual_scores)),
                          min_quality |-> min(qual_scores),
                          max_quality |-> max(qual_scores),
                          q20_count |-> count_ge(qual_scores, Q20),
                          q30_count |-> count_ge(qual_scores, Q30),
                          length |-> Len(qual_scores)])]

\* one iteration of the loop: total_sequences is incremented before the dict
\* is built, quality_stats is appended to only if building it did not raise
quality_command_ingest(a, record) ==
    LET q == quality_command_seq_quality(record.quality) IN
    [raised |-> q.raised,
     acc |-> [a EXCEPT !.total_sequences = @ + 1,
                       !.quality_stats = IF q.raised THEN @ ELSE Append(@, q.value[1])]]

quality_ingest(a, record) ==
    LET q == quality_seq_quality(record.quality) IN
    [raised |-> q.raised,
     acc |-> [a EXCEPT !.total_sequences = @ + 1,
                       !.quality_stats = IF q.raised THEN @ ELSE Append(@, q.value[1])]]

\* [stats[field] for stats in quality_stats]
length_of(quality_stats) == [i \in 1..Len(quality_stats) |-> quality_stats[i].length]
q20_count_of(quality_stats) == [i \in 1..Len(quality_stats) |-> quality_stats[i].q20_count]
q30_count_of(quality_stats) == [i \in 1..Len(quality_stats) |-> quality_stats[i].q30_count]
mean_quality_of(quality_stats) ==
    [i \in 1..Len(quality_stats) |-> quality_stats[i].mean_quality]
min_quality_of(quality_stats) == [i \in 1..Len(quality_stats) |-> quality_stats[i].min_quality]
max_quality_of(quality_stats) == [i \in 1..Len(quality_stats) |-> quality_stats[i].max_quality]

\* mutant: the base-weighted mean, the sum of all scores over total_bases
weighted_quality_of(quality_stats) ==
    [i \in 1..Len(quality_stats) |->
       FMulInt(quality_stats[i].mean_quality, quality_stats[i].length)]
mean_quality_weighted(quality_stats, total_sequences) ==
    FDivInt(fsum(weighted_quality_of(quality_stats)),
            sum(length_of(quality_stats)))

\* mean_quality_all = sum(stats['mean_quality'] ...) / total_sequences
mean_quality_all(quality_stats, total_sequences) ==
    FDivInt(fsum(mean_quality_of(quality_stats)), total_sequences)

\* The aggregated quality statistics.  The two percentages divide by
\* total_bases and raise ZeroDivisionError when it is 0; the handler's
\* except clause then reports the error and exits with status 1.
quality_command_summary(a) ==
    IF a.total_sequences = 0 THEN NoData
    ELSE LET total_bases == sum(length_of(a.quality_stats))
             total_q20 == sum(q20_count_of(a.quality_stats))
             total_q30 == sum(q30_count_of(a.quality_stats))
         IN IF total_bases = 0 THEN Failed
            ELSE [EmptyOut EXCEPT
                    !.exit_status = Some(0), !.message = "report",
                    !.total_bases = Some(total_bases),
                    !.mean_quality_all =
                        Some(mean_quality_all(a.quality_stats, a.total_sequences)),
                    !.min_quality_all = Some(min(min_quality_of(a.quality_stats))),
                    !.max_quality_all = Some(max(max_quality_of(a.quality_stats))),
                    !.q20_percentage = Some(FMulInt(Frac(total_q20, total_bases), Percent)),
                    !.q30_percentage = Some(FMulInt(Frac(total_q30, total_bases), Percent))]

\* mutant: the q20 rule is tried before the second q30 rule
quality_grade_reordered(q20_percentage, q30_percentage) ==
    IF FGeInt(q30_percentage, Excellent30) THEN "Excellent"
    ELSE IF FGeInt(q20_percentage, Acceptable20) THEN "Acceptable"
    ELSE IF FGeInt(q30_percentage, Good30) THEN "Good"
    ELSE "Poor"

\* if q30 >= 80 ... elif q30 >= 60 ... elif q20 >= 80 ... else
quality_grade(q20_percentage, q30_percentage) ==
    IF FGeInt(q30_percentage, Excellent30) THEN "Excellent"
    ELSE IF FGeInt(q30_percentage, Good30) THEN "Good"
    ELSE IF FGeInt(q20_percentage, Acceptable20) THEN "Acceptable"
    ELSE "Poor"

quality(a) ==
    IF a.total_sequences = 0 THEN NoData
    ELSE LET total_bases == sum(length_of(a.quality_stats))
             total_q20 == sum(q20_count_of(a.quality_stats))
             total_q30 == sum(q30_count_of(a.quality_stats))
         IN IF total_bases = 0 THEN Failed
            ELSE LET q20_percentage == FMulInt(Frac(total_q20, total_bases), Percent)
                     q30_percentage == FMulInt(Frac(total_q30, total_bases), Percent)
                 IN [EmptyOut EXCEPT
                       !.exit_status = Some(0), !.message = "report",
                       !.total_bases = Some(total_bases),
                       !.mean_quality_all =
                           Some(mean_quality_all(a.quality_stats, a.total_sequences)),
                       !.min_quality_all =
                           Some(min(min_quality_of(a.quality_stats))),
                       !.max_quality_all =
                           Some(max(max_quality_of(a.quality_stats))),
                       !.q20_percentage = Some(q20_percentage),
                       !.q30_percentage = Some(q30_percentage),
                       !.quality_grade =
                           Some(quality_grade(q20_percentage, q30_percentage))]

\* ---------------------------------------------------------- plot passes
\* analyze_fastq is imported from a module of its own: it draws the charts of a
\* file, and a file without records is a successful "no data" result.
analyze_fastq(total_sequences) ==
    IF total_sequences = 0 THEN NoData
    ELSE [EmptyOut EXCEPT !.exit_status = Some(0), !.message = "plots"]

analyze_fastq_ingest(a, record) == [a EXCEPT !.total_sequences = @ + 1]

\* the click plots command after calculate_basic_stats has returned
plots(stats_data) ==
    IF stats_data.total_sequences = 0 THEN NoData
    ELSE analyze_fastq(stats_data.total_sequences)

plots_command(a) == analyze_fastq(a.total_sequences)

\* ------------------------------------------------- the interactive view
\* A dict keyed by the positions 0..k-1 is the sequence of its values: the
\* value of position p is element p + 1.
ATGC == {"A", "T", "G", "C"}

\* text_summary is the text widget as the pieces inserted at its END since it
\* was last emptied; a chart tab is the sequence of its child widgets;
\* messagebox is what showerror displayed in the latest run
InitGui == [lbl_file |-> "", text_summary |-> <<>>, cursor |-> "",
            tab_len |-> <<>>, tab_qual |-> <<>>, tab_content |-> <<>>,
            messagebox |-> <<>>]

\* mutant: a read shorter than the profile is padded with the score 0
run_analysis_ingest_padded(a, record) ==
    LET seq == record.sequence
        qual == record.quality
        seq_len == Len(seq)
        qpp == a.quality_per_position
        bcp == a.base_content_per_position
    IN [a EXCEPT
          !.total_sequences = @ + 1,
          !.total_length = @ + seq_len,
          !.sequence_lengths = Append(@, seq_len),
          !.quality_per_position =
              [i \in 1..Max2(Len(qpp), Len(qual)) |->
                 (IF i <= Len(qpp) THEN qpp[i] ELSE <<>>)
                 \o (IF i <= Len(qual) THEN <<qual[i]>> ELSE <<0>>)],
          !.base_content_per_position =
              [i \in 1..Max2(Len(bcp), seq_len) |->
                 LET old == IF i <= Len(bcp) THEN bcp[i] ELSE [b \in ATGC |-> 0]
                 IN IF i <= seq_len /\ seq[i] \in ATGC
                    THEN [old EXCEPT ![seq[i]] = @ + 1]
                    ELSE old]]

\* one iteration of the loop of run_analysis
run_analysis_ingest(a, record) ==
    LET seq == record.sequence
        qual == record.quality
        seq_len == Len(seq)
        qpp == a.quality_per_position
        bcp == a.base_content_per_position
    IN [a EXCEPT
          !.total_sequences = @ + 1,
          !.total_length = @ + seq_len,
          !.sequence_lengths = Append(@, seq_len),
          !.quality_per_position =
              [i \in 1..Max2(Len(qpp), Len(qual)) |->
                 (IF i <= Len(qpp) THEN qpp[i] ELSE <<>>)
                 \o (IF i <= Len(qual) THEN <<qual[i]>> ELSE <<>>)],
          !.base_content_per_position =
              [i \in 1..Max2(Len(bcp), seq_len) |->
                 LET old == IF i <= Len(bcp) THEN bcp[i] ELSE [b \in ATGC |-> 0]
                 IN IF i <= seq_len /\ seq[i] \in ATGC
                    THEN [old EXCEPT ![seq[i]] = @ + 1]
                    ELSE old]]

\* ax.hist(lengths, bins=min(50, len(set(lengths))))
draw_length_dist(lengths) ==
    [lengths |-> lengths,
     bins |-> Min2(HistBins, Cardinality({lengths[i] : i \in 1..Len(lengths)}))]

\* the mean quality of every position, in the order of the positions
draw_quality_plot(quality_data) ==
    [mean_qualities |->
       [i \in 1..Len(quality_data) |->
          Frac(sum(quality_data[i]), Len(quality_data[i]))]]

\* content_data[p][base] / total * 100 if total else 0, where total is
\* sum(content_data[p].values())
content_val(content, base) ==
    LET total == content["A"] + content["T"] + content["G"] + content["C"]
    IN IF total # 0 THEN FMulInt(Frac(content[base], total), Percent) ELSE Zero

draw_content_plot(content_data) ==
    [vals |-> [base \in ATGC |->
                 [i \in 1..Len(content_data) |-> content_val(content_data[i], base)]]]

\* mutant: the chart tabs keep their widgets
run_analysis_begin_keeping_tabs(g) ==
    [g EXCEPT !.text_summary = <<>>, !.cursor = "watch"]

\* run_analysis up to the loop: the summary text and the chart tabs are
\* cleared and the cursor is set to "watch"
run_analysis_begin(g) ==
    [g EXCEPT !.text_summary = <<>>, !.tab_len = <<>>, !.tab_qual = <<>>,
              !.tab_content = <<>>, !.cursor = "watch"]

\* the except clause of run_analysis
run_analysis_except(g) ==
    [g EXCEPT !.cursor = "", !.messagebox = Some("error")]

\* run_analysis after the loop
run_analysis_end(g, a) ==
    IF a.total_sequences = 0
    THEN [gui |-> [g EXCEPT !.cursor = "", !.text_summary = Append(@, "empty")],
          out |-> NoData]
    ELSE [gui |-> [g EXCEPT
                     !.cursor = "", !.text_summary = Append(@, "summary"),
                     !.tab_len = Append(@, draw_length_dist(a.sequence_lengths)),
                     !.tab_qual = Append(@, draw_quality_plot(a.quality_per_position)),
                     !.tab_content =
                         Append(@, draw_content_plot(a.base_content_per_position))],
          out |-> [EmptyOut EXCEPT
                     !.exit_status = Some(0), !.message = "report",
                     !.mean_length = Some(Frac(a.total_length, a.total_sequences)),
                     !.min_length = Some(min(a.sequence_lengths)),
                     !.max_length = Some(max(a.sequence_lengths))]]

\* ------------------------------------------------------------- history
InitGhost == [malformed |-> 0, last |-> "none", others |-> <<>>,
              quals |-> <<>>, symbols |-> 0,
              reads |-> 0, bases |-> 0, gc |-> 0, gc_upper |-> 0, outside |-> 0,
              runs |-> 0, dialog |-> "none", shown |-> FALSE,
              reach |-> <<>>, scores |-> <<>>]

\* the number of symbols of seq that are in S
CountIn(seq, S) == Cardinality({i \in 1..Len(seq) : seq[i] \in S})

WellFormed(record) == Len(record.sequence) = Len(record.quality)

Kind(record) == IF ~WellFormed(record) THEN "malformed"
                ELSE IF Len(record.sequence) = 0 THEN "empty" ELSE "read"

\* the record is the index-th of the stream
Observe(h, c, record, index) ==
    [malformed |-> IF h.malformed = 0 /\ ~WellFormed(record) THEN index
                   ELSE h.malformed,
     last |-> Kind(record),
     others |-> IF c \notin ViewCommands THEN h.others
                ELSE [i \in 1..Max2(Len(h.others), Len(record.sequence)) |->
                        (IF i <= Len(h.others) THEN h.others[i] ELSE 0)
                        + (IF i <= Len(record.sequence) /\ record.sequence[i] \notin ATGC
                           THEN 1 ELSE 0)],
     quals |-> IF c \in {"quality", "quality_command"}
               THEN Append(h.quals, record.quality) ELSE h.quals,
     \* the records read; the symbols read (where total_length is kept and
     \* one run is observed); in calculate_basic_stats the G and C as written,
     \* the G and C in either case and the symbols outside A, T, G, C as written
     reads |-> h.reads + 1,
     bases |-> IF c \in {"stats", "stats_command", "run_analysis"}
               THEN h.bases + Len(record.sequence) ELSE h.bases,
     gc |-> IF c = "stats"
            THEN h.gc + CountIn(record.sequence, {"G", "C"}) ELSE h.gc,
     gc_upper |-> IF c = "stats"
                  THEN h.gc_upper + CountIn(record.sequence, {"G", "C", "g", "c"})
                  ELSE h.gc_upper,
     outside |-> IF c = "stats"
                 THEN h.outside + Len(record.sequence) - CountIn(record.sequence, ATGC)
                 ELSE h.outside,
     \* the file dialogs opened so far, the outcome of the last one and
     \* whether an earlier run has drawn its charts
     runs |-> h.runs, dialog |-> h.dialog, shown |-> h.shown,
     \* in one run of the view, for every position the number of reads whose
     \* quality list reaches it and the sum of their scores there
     reach |-> IF c # "run_analysis" THEN h.reach
               ELSE [i \in 1..Max2(Len(h.reach), Len(record.quality)) |->
                       (IF i <= Len(h.reach) THEN h.reach[i] ELSE 0)
                       + (IF i <= Len(record.quality) THEN 1 ELSE 0)],
     scores |-> IF c # "run_analysis" THEN h.scores
                ELSE [i \in 1..Max2(Len(h.scores), Len(record.quality)) |->
                        (IF i <= Len(h.scores) THEN h.scores[i] ELSE 0)
                        + (IF i <= Len(record.quality) THEN record.quality[i] ELSE 0)],
     symbols |-> IF c = "load_file" THEN h.symbols + Len(record.sequence)
                 ELSE IF c = "run_analysis"
                 THEN h.symbols + Len(record.sequence) + Len(record.quality)
                 ELSE IF c \in {"quality", "quality_command"}
                 THEN h.symbols + Len(record.quality)
                 ELSE h.symbols]

\* ------------------------------------------------------------- actions
Init ==
    /\ cmd \in Commands
    /\ detailed \in (IF cmd = "stats" THEN BOOLEAN ELSE {FALSE})
    /\ pc = "start"
    /\ acc = EmptyAcc
    /\ out = EmptyOut
    /\ gui = InitGui
    /\ ghost = InitGhost

\* a command line handler up to its loop: a missing file is a fatal error
Open ==
    /\ pc = "start"
    /\ cmd \notin ViewCommands
    /\ \E exists \in BOOLEAN :
         IF exists
         THEN pc' = "reading" /\ out' = out
         ELSE pc' = "done" /\ out' = [Failed EXCEPT !.message = "file_not_found"]
    /\ UNCHANGED <<cmd, detailed, acc, gui, ghost>>

\* run_analysis(file_path) in the fresh window, up to its loop
run_analysis ==
    /\ pc = "start"
    /\ cmd = "run_analysis"
    /\ gui' = run_analysis_begin([gui EXCEPT !.lbl_file = "reads.fastq"])
    /\ pc' = "reading"
    /\ UNCHANGED <<cmd, detailed, acc, out, ghost>>

\* the button of the interactive view: a cancelled dialog returns "" and
\* nothing runs; otherwise run_analysis starts on its own fresh local
\* accumulators.  The handler is synchronous, so the button is pressed again
\* only after the previous run has returned and its error dialog, if any, has
\* been dismissed.  MaxRuns bounds the dialogs opened.
load_file ==
    /\ pc \in {"start", "done"}
    /\ cmd = "load_file"
    /\ ghost.runs < MaxRuns
    /\ \E file_path \in {"", "reads.fastq"} :
         IF file_path # ""
         THEN /\ gui' = run_analysis_begin([gui EXCEPT !.lbl_file = file_path,
                                                       !.messagebox = <<>>])
              /\ pc' = "reading"
              /\ acc' = EmptyAcc
              /\ out' = EmptyOut
              /\ ghost' = [InitGhost EXCEPT
                             !.runs = ghost.runs + 1, !.dialog = "chosen",
                             !.symbols = ghost.symbols,
                             !.shown = ghost.shown \/ gui.tab_len # <<>>]
         ELSE /\ ghost' = [ghost EXCEPT !.runs = @ + 1, !.dialog = "cancelled"]
              /\ UNCHANGED <<gui, pc, acc, out>>
    /\ UNCHANGED <<cmd, detailed>>

\* what one iteration of the command's loop makes of the accumulators
Ingest(c, a, record) ==
    CASE c = "stats_command" -> [raised |-> FALSE, acc |-> stats_command_ingest(a, record)]
      [] c \in {"stats", "plots"} ->
            [raised |-> FALSE, acc |-> calculate_basic_stats_ingest(a, record)]
      [] c = "quality_command" -> quality_command_ingest(a, record)
      [] c = "quality" -> quality_ingest(a, record)
      [] c = "plots_command" -> [raised |-> FALSE, acc |-> analyze_fastq_ingest(a, record)]
      [] c \in ViewCommands -> [raised |-> FALSE, acc |-> run_analysis_ingest(a, record)]

\* the reader yields one more record; an exception ends the command in its
\* except clause
Read ==
    /\ pc = "reading"
    /\ acc.total_sequences < MaxReads
    /\ \E record \in Records(cmd, ghost.symbols) :
         /\ LET r == Ingest(cmd, acc, record) IN
              /\ acc' = r.acc
              /\ pc' = IF r.raised THEN "done" ELSE "reading"
              /\ out' = IF r.raised THEN Failed ELSE out
         /\ ghost' = Observe(ghost, cmd, record, acc.total_sequences + 1)
    /\ UNCHANGED <<cmd, detailed, gui>>

\* the reader raises while it reads the file: the except clause of the
\* command ends it, in the interactive view with an error dialog
ReaderRaises ==
    /\ pc = "reading"
    /\ pc' = "done"
    /\ out' = [Failed EXCEPT !.message = "reader_error"]
    /\ gui' = IF cmd \in ViewCommands THEN run_analysis_except(gui) ELSE gui
    /\ UNCHANGED <<cmd, detailed, acc, ghost>>

\* the reader is exhausted: the loop ends (calculate_basic_stats returns)
EndOfStream ==
    /\ pc = "reading"
    /\ pc' = "summary"
    /\ UNCHANGED <<cmd, detailed, acc, out, gui, ghost>>

\* the rest of the handler
Summarize ==
    /\ pc = "summary"
    /\ pc' = "done"
    /\ CASE cmd = "stats_command" ->
              out' = stats_command_summary(acc) /\ UNCHANGED <<acc, gui>>
         [] cmd = "stats" ->
              LET r == stats(acc, detailed) IN
              out' = r.out /\ acc' = r.stats_data /\ UNCHANGED gui
         [] cmd = "plots" -> out' = plots(acc) /\ UNCHANGED <<acc, gui>>
         [] cmd = "plots_command" -> out' = plots_command(acc) /\ UNCHANGED <<acc, gui>>
         [] cmd = "quality_command" ->
              out' = quality_command_summary(acc) /\ UNCHANGED <<acc, gui>>
         [] cmd = "quality" -> out' = quality(acc) /\ UNCHANGED <<acc, gui>>
         [] cmd \in ViewCommands ->
              LET r == run_analysis_end(gui, acc) IN
              out' = r.out /\ gui' = r.gui /\ UNCHANGED acc
    /\ UNCHANGED <<cmd, detailed, ghost>>

Next == Open \/ run_analysis \/ load_file \/ Read \/ ReaderRaises \/ EndOfStream \/ Summarize

Spec == Init /\ [][Next]_vars

\* ------------------------- the two command line entry points side by side
\* The argparse handler and the click handler of the same command read the
\* same file: every record goes to both loops.  cmd names the click command;
\* acc, out and pc hold one value for each entry point.
ArgparseOf(c) == IF c = "stats" THEN "stats_command" ELSE "quality_command"

Both(x) == [argparse |-> x, click |-> x]

InitPair ==
    /\ cmd \in {"stats", "quality"}
    /\ detailed \in (IF cmd = "stats" THEN BOOLEAN ELSE {FALSE})
    /\ pc = Both("reading")
    /\ acc = Both(EmptyAcc)
    /\ out = Both(EmptyOut)
    /\ gui = InitGui
    /\ ghost = InitGhost

ReadPair ==
    /\ pc = Both("reading")
    /\ ghost.reads < MaxReads
    /\ \E record \in Records(cmd, ghost.symbols) :
         /\ LET ra == Ingest(ArgparseOf(cmd), acc.argparse, record)
                rc == Ingest(cmd, acc.click, record)
            IN /\ acc' = [argparse |-> ra.acc, click |-> rc.acc]
               /\ pc' = [argparse |-> IF ra.raised THEN "done" ELSE "reading",
                         click |-> IF rc.raised THEN "done" ELSE "reading"]
               /\ out' = [argparse |-> IF ra.raised THEN Failed ELSE out.argparse,
                          click |-> IF rc.raised THEN Failed ELSE out.click]
         /\ ghost' = Observe(ghost, cmd, record, ghost.reads + 1)
    /\ UNCHANGED <<cmd, detailed, gui>>

EndOfStreamPair ==
    /\ pc = Both("reading")
    /\ pc' = Both("summary")
    /\ UNCHANGED <<cmd, detailed, acc, out, gui, ghost>>

SummarizePair ==
    /\ pc = Both("summary")
    /\ pc' = Both("done")
    /\ IF cmd = "stats"
       THEN LET r == stats(acc.click, detailed) IN
            /\ out' = [argparse |-> stats_command_summary(acc.argparse),
                       click |-> r.out]
            /\ acc' = [acc EXCEPT !.click = r.stats_data]
       ELSE /\ out' = [argparse |-> quality_command_summary(acc.argparse),
                       click |-> quality(acc.click)]
            /\ acc' = acc
    /\ UNCHANGED <<cmd, detailed, gui, ghost>>

NextPair == ReadPair \/ EndOfStreamPair \/ SummarizePair

SpecPair == InitPair /\ [][NextPair]_vars

\* ------------------------------------------- the grading rule on its own
\* The categorisation of the quality command applied to every pair of
\* percentages in [0, 100] in steps of 1 / GradeDen, whether or not a stream
\* of the bounded model produces the pair.
Percentages == {Frac(n, GradeDen) : n \in 0..(Percent * GradeDen)}

InitGrade ==
    /\ cmd = "quality"
    /\ detailed = FALSE
    /\ pc = "grade"
    /\ acc \in [q20_percentage : Percentages, q30_percentage : Percentages]
    /\ out = EmptyOut
    /\ gui = InitGui
    /\ ghost = InitGhost

Categorize ==
    /\ pc = "grade"
    /\ pc' = "graded"
    /\ out' = [EmptyOut EXCEPT
                 !.quality_grade =
                     Some(quality_grade(acc.q20_percentage, acc.q30_percentage))]
    /\ UNCHANGED <<cmd, detailed, acc, gui, ghost>>

NextGrade == Categorize

SpecGrade == InitGrade /\ [][NextGrade]_vars

\* ---------------------------------------------------------------- claims
QualityCommands == {"quality", "quality_command"}
StatsCommands == {"stats", "stats_command"}

\* C1: the grade is Excellent exactly when q30 >= 80, Good exactly when
\* 60 <= q30 < 80, Acceptable exactly when q30 < 60 and q20 >= 80, and Poor
\* exactly when q30 < 60 and q20 < 80; every pair of percentages gets one grade.
C1_GradeRule ==
    pc = "graded" =>
        LET q20 == acc.q20_percentage
            q30 == acc.q30_percentage
            grade == out.quality_grade
        IN /\ Len(grade) = 1
           /\ grade[1] \in {"Excellent", "Good", "Acceptable", "Poor"}
           /\ grade[1] = "Excellent" <=> q30.num >= 80 * q30.den
           /\ grade[1] = "Good" <=>
                (q30.num < 80 * q30.den /\ q30.num >= 60 * q30.den)
           /\ grade[1] = "Acceptable" <=>
                (q30.num < 60 * q30.den /\ q20.num >= 80 * q20.den)
           /\ grade[1] = "Poor" <=>
                (q30.num < 60 * q30.den /\ q20.num < 80 * q20.den)

\* a pair with q20 >= 80 and 60 <= q30 < 80, where the second rule wins over
\* the third
C1_Witness ==
    /\ pc = "graded"
    /\ acc.q20_percentage = Frac(90, 1)
    /\ acc.q30_percentage = Frac(60, 1)
    /\ out.quality_grade = Some("Good")

\* C2: the reported length distribution lists the lengths by descending
\* count, lengths of equal count by ascending length, whatever the order in
\* which the reads arrived.
C2_TiesByAscendingLength ==
    (cmd \in StatsCommands /\ pc = "done" /\ ghost.malformed = 0
       /\ out.sorted_lengths # None) =>
        LET d == out.sorted_lengths[1] IN
        \A i, j \in 1..Len(d) :
            i < j => \/ d[i].count > d[j].count
                     \/ (d[i].count = d[j].count /\ d[i].length < d[j].length)

\* C3: at every position of the composition profile the four percentages
\* sum to 100 if only A, T, G, C were observed there, and to less than 100 if
\* another symbol was.
ContentSum(plot, i) ==
    FAdd(FAdd(plot.vals["A"][i], plot.vals["T"][i]),
         FAdd(plot.vals["G"][i], plot.vals["C"][i]))

C4_MalformedAborts ==
    (cmd \in QualityCommands \cup {"run_analysis"} /\ ghost.malformed > 0) =>
        /\ pc = "done"
        /\ out.exit_status = Some(1)
        /\ out.message = "error"
        /\ Len(acc.sequence_lengths) < ghost.malformed
        /\ Len(acc.quality_stats) < ghost.malformed

\* C5: a well-formed read of length 0 raises no error in any pass.
C5_EmptyReadIsValid ==
    (cmd \notin {"plots", "plots_command"} /\ ghost.malformed = 0
       /\ ghost.last = "empty") =>
        out.message # "error"

\* C6: once the loop of a command line pass has ended (calculate_basic_stats
\* has returned), no step changes the accumulators, no record is ingested and
\* the loop does not end a second time: the summary is derived from the
\* frozen state without writing to it.
CliCommands == {"stats", "plots", "stats_command", "quality", "quality_command"}

C6_Step ==
    cmd \in CliCommands =>
        /\ pc \in {"summary", "done"} => (acc' = acc /\ pc' \in {"summary", "done"})
        /\ pc = "done" => pc' = "done"
        /\ pc' = "summary" => pc \in {"reading", "summary"}
        /\ acc' # acc =>
             (pc = "reading" /\ acc'.total_sequences = acc.total_sequences + 1)

C7_Q20AtLeastQ30 ==
    (cmd \in QualityCommands /\ out.q20_percentage # None) =>
        /\ out.q30_percentage # None
        /\ FGe(out.q20_percentage[1], out.q30_percentage[1])

\* a well-formed stream with a base between the two thresholds
C7_Witness ==
    /\ cmd = "quality"
    /\ pc = "done"
    /\ ghost.malformed = 0
    /\ ghost.quals = << <<20, 30>> >>
    /\ out.q20_percentage = Some(Frac(100, 1))
    /\ out.q30_percentage = Some(Frac(50, 1))

\* C8: 0 <= gc_count <= total_bases after every record, the reported GC
\* content lies in [0, 100], and it is 0 when total_bases is 0.
C8_GcPercent ==
    cmd \in StatsCommands \cup {"plots"} =>
        /\ 0 <= acc.gc_count
        /\ acc.gc_count <= acc.total_bases
        /\ out.gc_content # None =>
             /\ FGeInt(out.gc_content[1], 0)
             /\ ~FLt(Frac(100, 1), out.gc_content[1])
             /\ acc.total_bases = 0 => out.gc_content[1] = Zero
             /\ acc.total_bases > 0 =>
                  out.gc_content[1].num * acc.total_bases
                      = 100 * acc.gc_count * out.gc_content[1].den

\* a stream of empty reads only: total_bases is 0 and the GC content is 0
C8_Witness ==
    /\ cmd = "stats"
    /\ pc = "done"
    /\ acc.total_sequences = 2
    /\ acc.total_bases = 0
    /\ out.gc_content = Some(Zero)

RECURSIVE ProdLen(_)
ProdLen(qs) == IF qs = <<>> THEN 1 ELSE Len(Head(qs)) * ProdLen(Tail(qs))

RECURSIVE CrossSum(_)
CrossSum(qs) ==
    IF qs = <<>> THEN 0
    ELSE sum(Head(qs)) * ProdLen(Tail(qs)) + Len(Head(qs)) * CrossSum(Tail(qs))

C10_MeanOfReadMeans ==
    (cmd \in QualityCommands /\ pc = "done" /\ out.message = "report") =>
        /\ out.mean_quality_all # None
        /\ out.mean_quality_all[1].num * ProdLen(ghost.quals) * Len(ghost.quals)
               = out.mean_quality_all[1].den * CrossSum(ghost.quals)

\* reads of scores [30, 30] and [10]: the mean of the read means is 20, the
\* base-weighted mean is 70 / 3
C10_Witness ==
    /\ cmd = "quality"
    /\ pc = "done"
    /\ ghost.malformed = 0
    /\ ghost.quals = << <<30, 30>>, <<10>> >>
    /\ out.mean_quality_all = Some(Frac(20, 1))
    /\ out.mean_quality_all # Some(Frac(70, 3))

\* C11: in every state of a pass, that is after every prefix of the stream,
\* total_sequences is the number of records read so far and total_length the
\* number of symbols of their sequences; where the pass keeps total_bases
\* (the statistics passes; the interactive view has no such accumulator) it
\* equals total_length.
TotalsCommands == {"stats", "stats_command", "run_analysis"}

C11_TotalsMatchStream ==
    (cmd \in TotalsCommands /\ pc \in {"reading", "summary", "done"}) =>
        /\ acc.total_sequences = ghost.reads
        /\ acc.total_length = ghost.bases
        /\ Len(acc.sequence_lengths) = ghost.reads
        /\ sum(acc.sequence_lengths) = ghost.bases
        /\ cmd \in StatsCommands => acc.total_bases = acc.total_length

\* a prefix of two reads, of two symbols and of one, in the argparse pass
C11_Witness ==
    /\ cmd = "stats_command"
    /\ pc = "reading"
    /\ ghost.malformed = 0
    /\ ghost.reads = 2
    /\ ghost.bases = 3
    /\ acc.sequence_lengths = <<2, 1>>
    /\ acc.total_length = 3
    /\ acc.total_bases = 3

\* C12: the position profile of the interactive view has an entry at position
\* p exactly when some read is longer than p, the entry holds the scores of the
\* reads that reach p and of no other, and the plotted mean at p is the sum of
\* those scores divided by the number of those reads.  Positions count from 0
\* in the code and from 1 in the sequences here; ghost.reach and ghost.scores
\* are the number of reads reaching a position and the sum of their scores.
C12_PositionProfile ==
    (cmd = "run_analysis" /\ pc \in {"reading", "summary", "done"}) =>
        /\ Len(acc.quality_per_position) = Len(ghost.reach)
        /\ \A i \in 1..Len(acc.quality_per_position) :
              /\ ghost.reach[i] >= 1
              /\ Len(acc.quality_per_position[i]) = ghost.reach[i]
              /\ sum(acc.quality_per_position[i]) = ghost.scores[i]
        /\ (ghost.malformed = 0 /\ acc.sequence_lengths # <<>>) =>
              /\ Len(acc.quality_per_position) = max(acc.sequence_lengths)
              /\ \A i \in 1..Len(ghost.reach) :
                    ghost.reach[i] = Cardinality({k \in 1..Len(acc.sequence_lengths) :
                                                    acc.sequence_lengths[k] >= i})
        /\ (pc = "done" /\ gui.tab_qual # <<>>) =>
              LET mean_qualities == gui.tab_qual[1].mean_qualities IN
              /\ Len(mean_qualities) = Len(ghost.reach)
              /\ \A i \in 1..Len(mean_qualities) :
                    mean_qualities[i].num * ghost.reach[i]
                        = mean_qualities[i].den * ghost.scores[i]

\* a read of one score 30 and an empty read: the mean at the first position
\* is 30 / 1, the empty read is not counted there
C12_Witness ==
    /\ cmd = "run_analysis"
    /\ pc = "done"
    /\ ghost.malformed = 0
    /\ acc.total_sequences = 2
    /\ acc.sequence_lengths = <<1, 0>>
    /\ ghost.reach = <<1>>
    /\ ghost.scores = <<30>>
    /\ gui.tab_qual # <<>>
    /\ gui.tab_qual[1].mean_qualities = <<Frac(30, 1)>>

\* C13 as stated: every symbol read adds 1 to total_length and to total_bases;
\* gc_count is the number of G and C read as written, and the per-position
\* counts of the interactive view hold the A, T, G, C read as written, so that
\* a symbol outside {A,T,G,C} adds nothing to either.
ContentCount(content) == content["A"] + content["T"] + content["G"] + content["C"]

ReachingBySequence(lengths, i) == Cardinality({k \in 1..Len(lengths) : lengths[k] >= i})

PositionCountsExact ==
    /\ Len(acc.base_content_per_position) = Len(ghost.others)
    /\ \A i \in 1..Len(acc.base_content_per_position) :
          ContentCount(acc.base_content_per_position[i]) + ghost.others[i]
              = ReachingBySequence(acc.sequence_lengths, i)

C13_OutsideAddsNothing ==
    (cmd \in TotalsCommands /\ pc \in {"reading", "summary", "done"}
       /\ ghost.malformed = 0) =>
        /\ acc.total_length = ghost.bases
        /\ cmd \in StatsCommands => acc.total_bases = ghost.bases
        /\ cmd = "stats" => acc.gc_count = ghost.gc
        /\ cmd = "run_analysis" => PositionCountsExact

\* C13 amended: calculate_basic_stats upper-cases the sequence before it counts
\* G and C, so a lower-case g or c adds 1 to gc_count; a symbol whose upper
\* case is outside {A,T,G,C} adds nothing to it.  The interactive view compares
\* the symbol as written, so there a lower-case symbol adds nothing too.
\* This holds for every stream, the misaligned records included.
C13_OutsideAfterUpperAddsNothing ==
    (cmd \in TotalsCommands /\ pc \in {"reading", "summary", "done"}) =>
        /\ acc.total_length = ghost.bases
        /\ cmd \in StatsCommands => acc.total_bases = ghost.bases
        /\ cmd = "stats" => acc.gc_count = ghost.gc_upper
        /\ cmd = "run_analysis" => PositionCountsExact

\* the click pass has read an N and a lower-case g, both outside {A,T,G,C} as
\* written: both are in total_length and total_bases, the g alone in gc_count
C13_Witness ==
    /\ cmd = "stats"
    /\ pc = "reading"
    /\ ghost.bases = 2
    /\ ghost.outside = 2
    /\ ghost.gc = 0
    /\ ghost.gc_upper = 1
    /\ acc.total_length = 2
    /\ acc.total_bases = 2
    /\ acc.gc_count = 1

\* C14: fed the same records, the argparse and the click entry point are at
\* the same place after every record, with the same total_sequences,
\* total_length, gc_count, total_bases, lengths and per-read quality values,
\* and they report the same lengths, GC content and quality values; the top-10
\* length distribution is the same, in the same order, when the click command
\* prints one (--detailed).
AccumulatorFields == {"total_sequences", "total_length", "gc_count", "total_bases",
                      "sequence_lengths", "quality_stats"}

ReportFields == {"exit_status", "message", "mean_length", "min_length", "max_length",
                 "gc_content", "total_bases", "mean_quality_all", "min_quality_all",
                 "max_quality_all", "q20_percentage", "q30_percentage"}

C14_EntryPointsAgree ==
    /\ pc.argparse = pc.click
    /\ \A f \in AccumulatorFields : acc.argparse[f] = acc.click[f]
    /\ \A f \in ReportFields : out.argparse[f] = out.click[f]
    /\ detailed => out.argparse.sorted_lengths = out.click.sorted_lengths

\* both statistics handlers have reported on two reads of different lengths
\* with a lower-case g, with the distribution of the lengths
C14_Witness ==
    /\ cmd = "stats"
    /\ detailed
    /\ pc = Both("done")
    /\ ghost.reads = 2
    /\ ghost.gc_upper > ghost.gc
    /\ acc.argparse.sequence_lengths = <<1, 2>>
    /\ acc.click.sequence_lengths = <<1, 2>>
    /\ out.click.sorted_lengths # None
    /\ Len(out.click.sorted_lengths[1]) = 2
    /\ out.argparse.gc_content = out.click.gc_content
    /\ out.click.gc_content # None

\* C15: where the button of the interactive view is pressed again and again,
\* a cancelled file dialog changes neither the file label nor the summary text
\* nor a chart tab; a started analysis has emptied the summary text and the
\* three chart tabs and has fresh accumulators before it reads; and when
\* run_analysis has returned, in whichever way, the cursor is not "watch" and
\* the text and the charts are those of the reads of that run alone.
C15_Step ==
    cmd = "load_file" =>
        /\ (ghost'.runs # ghost.runs /\ ghost'.dialog = "cancelled") =>
              /\ gui'.lbl_file = gui.lbl_file
              /\ gui'.text_summary = gui.text_summary
              /\ gui'.tab_len = gui.tab_len
              /\ gui'.tab_qual = gui.tab_qual
              /\ gui'.tab_content = gui.tab_content
              /\ pc' = pc
        /\ (ghost'.runs # ghost.runs /\ ghost'.dialog = "chosen") =>
              /\ pc' = "reading"
              /\ gui'.text_summary = <<>>
              /\ gui'.tab_len = <<>> /\ gui'.tab_qual = <<>> /\ gui'.tab_content = <<>>
              /\ acc' = EmptyAcc
        /\ pc' \in {"start", "done"} => gui'.cursor # "watch"
        /\ (pc' = "done" /\ out'.message = "report") =>
              /\ acc'.total_sequences = ghost'.reads
              /\ gui'.text_summary = <<"summary">>
              /\ gui'.tab_len = <<draw_length_dist(acc'.sequence_lengths)>>
              /\ gui'.tab_qual = <<draw_quality_plot(acc'.quality_per_position)>>
              /\ gui'.tab_content = <<draw_content_plot(acc'.base_content_per_position)>>
              /\ gui'.messagebox = <<>>
        /\ (pc' = "done" /\ out'.message = "no_data") =>
              /\ gui'.text_summary = <<"empty">>
              /\ gui'.tab_len = <<>> /\ gui'.tab_qual = <<>> /\ gui'.tab_content = <<>>
              /\ gui'.messagebox = <<>>
        /\ (pc' = "done" /\ out'.message = "reader_error") =>
              /\ gui'.text_summary = <<>>
              /\ gui'.tab_len = <<>> /\ gui'.tab_qual = <<>> /\ gui'.tab_content = <<>>
              /\ gui'.messagebox = Some("error")

C15_RepeatedLoads == [][C15_Step]_vars

\* a second analysis has returned with its charts after an earlier one had
\* drawn its own: each tab holds one chart, of the one read of this run
C15_Witness ==
    /\ cmd = "load_file"
    /\ pc = "done"
    /\ ghost.runs = 2
    /\ ghost.dialog = "chosen"
    /\ ghost.shown
    /\ ghost.reads = 1
    /\ out.message = "report"
    /\ gui.cursor = ""
    /\ Len(gui.tab_len) = 1
    /\ gui.tab_len[1].lengths = <<2>>

====
